---- MODULE Spec2Model ----
(***************************************************************************)
(* Model of asio::detail::reactor_timer_queue<Time, Comparator>            *)
(* (asio/include/asio/detail/reactor_timer_queue.hpp).                     *)
(*                                                                         *)
(* A timer object is identified by its address; the free store hands out   *)
(* any address that is not currently allocated, so an address may be used  *)
(* again after its timer was deleted.  The heap_ vector is modelled by its *)
(* storage (data) and its size: within remove_timer, pop_back only lowers  *)
(* the size and the slot above it keeps the pointer last written there.    *)
(* The slots above the size and the memory of deleted timers can only be   *)
(* read after an out-of-bounds access of heap_; until one happens they are *)
(* kept blank.  An out-of-bounds access either ends the program (checked   *)
(* operator[]) or reads and writes the storage above the size.  In the     *)
(* second case the member function returns to its caller as usual and the  *)
(* queue takes further calls, on the stale storage and on the memory of    *)
(* deleted timers as delete left it: either untouched, or with its first   *)
(* bytes, the pointer to the virtual functions and time_, written over.    *)
(* A callback on a deleted timer runs in the first case and ends the       *)
(* program in the second; a second delete of a timer either ends the       *)
(* program or goes unnoticed.  Indices are zero-based as in the source.    *)
(***************************************************************************)
EXTENDS Integers, Sequences, FiniteSets

MaxTimers == 4      \* addresses of the free store = capacity of heap_
MaxTime == 2        \* deadlines are 1..MaxTime, dispatch times 1..MaxTime+1
MaxToken == 2       \* tokens are 1..MaxToken
MaxAfter == 2       \* calls followed after an out-of-bounds access of heap_
MaxAfterScript == 3 \* the same after the calls of Prefix
MaxLog == 6         \* callbacks followed within one call

Addr == 1..MaxTimers
Null == 0
Times == 1..MaxTime
Tokens == 1..MaxToken
Slots == 0..(MaxTimers - 1)

NoIndex == -1       \* heap_index_(~0) of a timer that was never put in the heap

\* what a read of a Time through a dangling pointer can yield: a value that
\* is ordered before every deadline, any deadline, or a value that no
\* deadline and no dispatch time is ordered after
AnyTime == 0..(MaxTime + 1)

VARIABLES
  pc,         \* "idle" | "dispatch" | "fire" | "cancel" | "cancelcb" | "done" | "aborted"
  heap_,      \* [data : Slots -> Addr \cup {Null}, size : Nat]
  timers_,    \* hash_map<void*, timer_base*> : token -> head of its chain
  mem,        \* the timer objects: Addr -> [vptr, time_, token_, next_, prev_,
              \* heap_index_, due]
  alloc,      \* addresses that are allocated (new'ed and not deleted)
  fired,      \* per address: do_operation calls on the timer allocated there
  cancelled,  \* per address: do_cancel calls on the timer allocated there
  t,          \* local t of dispatch_timers / cancel_timer
  next,       \* local next of cancel_timer
  call,       \* the call in progress or last completed: [op, arg, outcome]
  log,        \* callbacks invoked by that call, in order: <<[k, t, time]>>
  ret,        \* what the last enqueue_timer returned: [t, val]
  earliest,   \* out-parameter of get_earliest_time
  pre,        \* when cancel_timer began: the pending timers, those of the token,
              \* and the queue
  ub,         \* an out-of-bounds access of heap_ has happened in this or an
              \* earlier call
  order,      \* per token: its pending timers in the order of their enqueue_timer calls
  after,      \* calls of the reactor's choice that are still followed once an
              \* out-of-bounds access of heap_ has happened
  script      \* the calls the reactor makes first, in order; after them any call

vars == <<pc, heap_, timers_, mem, alloc, fired, cancelled, t, next, call,
          log, ret, earliest, pre, ub, order, after, script>>

\* vptr: the object's pointer to its virtual functions is that of
\* timer<Handler>, so that do_operation() and do_cancel() can be called.
\* due is not a member: it keeps the deadline the timer was constructed with
Blank == [vptr |-> FALSE, time_ |-> 0, token_ |-> 0, next_ |-> Null, prev_ |-> Null,
          heap_index_ |-> NoIndex, due |-> 0]

\* Comparator = std::less<Time>
Comp(a, b) == a < b

----------------------------------------------------------------------------
(* A queue value Q = [data, size, mem, timers, oob] is threaded through    *)
(* the private member functions.                                           *)

TimeAt(Q, i) == Q.mem[Q.data[i]].time_

\* heap_[i] is evaluated with i >= heap_.size()
Touch(Q, i) == [Q EXCEPT !.oob = @ \/ i >= Q.size]

SwapHeap(Q, index1, index2) ==
  LET d == [Q.data EXCEPT ![index1] = Q.data[index2], ![index2] = Q.data[index1]]
      m1 == [Q.mem EXCEPT ![d[index1]].heap_index_ = index1]
      m2 == [m1 EXCEPT ![d[index2]].heap_index_ = index2]
  IN [Touch(Touch(Q, index1), index2) EXCEPT !.data = d, !.mem = m2]

Parent(index) == index \div 2

RECURSIVE UpHeap(_, _)
UpHeap(Q, index) ==
  IF index > 0
    THEN LET Q1 == Touch(Touch(Q, index), Parent(index))
         IN IF Comp(TimeAt(Q, index), TimeAt(Q, Parent(index)))
              THEN UpHeap(SwapHeap(Q1, index, Parent(index)), Parent(index))
              ELSE Q1
    ELSE Q

\* heap_[child] < heap_[child + 1] compares the two timer_base* values
MinChild(Q, child) ==
  IF child + 1 = Q.size \/ Q.data[child] < Q.data[child + 1]
    THEN child ELSE child + 1

RECURSIVE DownHeap(_, _)
DownHeap(Q, index) ==
  LET child == index * 2 + 1
  IN IF child < Q.size
       THEN LET min_child == MinChild(Q, child)
            IN IF Comp(TimeAt(Q, index), TimeAt(Q, min_child))
                 THEN Q
                 ELSE DownHeap(SwapHeap(Q, index, min_child), min_child)
       ELSE Q

\* The direction test of remove_timer: t is the timer being removed.
SiftUpTest(Q, rt, heap_index) ==
  heap_index > 0 /\ Comp(Q.mem[rt].time_, TimeAt(Q, Parent(heap_index)))

\* remove_timer: remove the timer from the heap
RemoveFromHeap(Q, rt) ==
  LET heap_index == Q.mem[rt].heap_index_
  IN IF Q.size > 1
       THEN LET Q1 == SwapHeap(Q, heap_index, Q.size - 1)
                Q2 == [Q1 EXCEPT !.size = @ - 1]
            IN IF SiftUpTest(Q2, rt, heap_index)
                 THEN UpHeap(Q2, heap_index)
                 ELSE DownHeap(Q2, heap_index)
       ELSE [Q EXCEPT !.size = 0]

\* remove_timer: remove the timer from the hash
RemoveFromHash(Q, rt) ==
  LET tok == Q.mem[rt].token_
      nx == Q.mem[rt].next_
      pv == Q.mem[rt].prev_
  IN IF tok \in DOMAIN Q.timers
       THEN LET head == IF Q.timers[tok] = rt THEN nx ELSE Q.timers[tok]
                m1 == IF pv # Null THEN [Q.mem EXCEPT ![pv].next_ = nx] ELSE Q.mem
                m2 == IF nx # Null THEN [m1 EXCEPT ![nx].prev_ = pv] ELSE m1
                tm == IF head = Null
                        THEN [k \in DOMAIN Q.timers \ {tok} |-> Q.timers[k]]
                        ELSE [Q.timers EXCEPT ![tok] = head]
            IN [Q EXCEPT !.mem = m2, !.timers = tm]
       ELSE Q

\* void remove_timer(timer_base* t)
RemoveTimer(Q, rt) == RemoveFromHash(RemoveFromHeap(Q, rt), rt)

\* timer_base(time, token) constructs the timer at address a
Construct(Q, time, token, a) ==
  [Q EXCEPT !.mem = [@ EXCEPT ![a] = [Blank EXCEPT !.vptr = TRUE,
                                                   !.time_ = time,
                                                   !.token_ = token,
                                                   !.due = time]]]

\* enqueue_timer: insert the new timer into the hash
HashInsert(Q, token, a) ==
  IF token \notin DOMAIN Q.timers
    THEN [Q EXCEPT !.timers = [k \in DOMAIN Q.timers \cup {token} |->
                                 IF k = token THEN a ELSE Q.timers[k]]]
    ELSE [Q EXCEPT !.mem = [@ EXCEPT ![Q.timers[token]].prev_ = a,
                                     ![a].next_ = Q.timers[token]],
                   !.timers = [@ EXCEPT ![token] = a]]

\* enqueue_timer: put the timer at the correct position in the heap
HeapInsert(Q, a) ==
  LET Q1 == [Q EXCEPT !.mem = [@ EXCEPT ![a].heap_index_ = Q.size],
                      !.data = [@ EXCEPT ![Q.size] = a],
                      !.size = @ + 1]
  IN UpHeap(Q1, Q1.size - 1)

\* enqueue_timer after new timer<Handler>(time, handler, token) returned a
InsertTimer(Q, time, token, a) ==
  HeapInsert(HashInsert(Construct(Q, time, token, a), token, a), a)

Cur == [data |-> heap_.data, size |-> heap_.size, mem |-> mem,
        timers |-> timers_, oob |-> FALSE]

\* The members after a private function returned Q.
Store(Q) ==
  /\ heap_' = [data |-> IF ub \/ Q.oob THEN Q.data
                        ELSE [i \in Slots |-> IF i < Q.size THEN Q.data[i] ELSE Null],
               size |-> Q.size]
  /\ mem' = Q.mem
  /\ timers_' = Q.timers
  /\ ub' = (ub \/ Q.oob)

NoCall == [op |-> "none", arg |-> 0, outcome |-> "normal"]
NoRet == [t |-> Null, val |-> FALSE]
NoPre == [same |-> {}, all |-> {}, snap |-> <<>>, order |-> <<>>]

----------------------------------------------------------------------------
Init ==
  /\ pc = "idle"
  /\ heap_ = [data |-> [i \in Slots |-> Null], size |-> 0]
  /\ timers_ = [k \in {} |-> Null]
  /\ mem = [a \in Addr |-> Blank]
  /\ alloc = {}
  /\ fired = [a \in Addr |-> 0]
  /\ cancelled = [a \in Addr |-> 0]
  /\ t = Null
  /\ next = Null
  /\ call = NoCall
  /\ log = <<>>
  /\ ret = NoRet
  /\ earliest = 0
  /\ pre = NoPre
  /\ ub = FALSE
  /\ order = [k \in Tokens |-> <<>>]
  /\ after = MaxAfter
  /\ script = <<>>

\* timers on which no terminal callback has been invoked yet
Pending == {a \in alloc : fired[a] = 0 /\ cancelled[a] = 0}

\* a public member function is entered by the call c of the reactor
Enter(c) ==
  /\ pc = "idle"
  /\ (ub /\ script = <<>>) => after > 0
  /\ after' = IF ub /\ script = <<>> THEN after - 1 ELSE after
  /\ script # <<>> => Head(script) = c
  /\ script' = IF script # <<>> THEN Tail(script) ELSE script

\* the enqueue order without timer a, which gets its terminal callback
Terminate(a) == [k \in Tokens |-> SelectSeq(order[k], LAMBDA x : x # a)]

\* bool enqueue_timer(time, handler, token); new returns the address a
EnqueueTimer(time, token, a) ==
  /\ Enter(<<"enqueue", time, token, a>>)
  /\ a \notin alloc
  /\ heap_.size < MaxTimers
  /\ LET Q == InsertTimer(Cur, time, token, a)
     IN /\ Store(Q)
        /\ ret' = [t |-> a, val |-> (Q.data[0] = a)]
  /\ alloc' = alloc \cup {a}
  /\ pc' = "done"
  /\ call' = [op |-> "enqueue", arg |-> time, outcome |-> "normal"]
  /\ order' = [order EXCEPT ![token] = Append(@, a)]
  /\ fired' = [fired EXCEPT ![a] = 0]
  /\ cancelled' = [cancelled EXCEPT ![a] = 0]
  /\ UNCHANGED <<t, next, log, earliest, pre>>

\* void get_earliest_time(Time& time).  The function has no test for an
\* empty heap_: heap_[0] is then an out-of-bounds access, which either ends
\* the program or yields whatever pointer the storage holds, whose time_ is
\* some value of Time.
GetEarliestTime ==
  /\ Enter(<<"earliest">>)
  /\ IF heap_.size > 0
       THEN /\ earliest' = mem[heap_.data[0]].time_
            /\ pc' = "done"
            /\ call' = [op |-> "earliest", arg |-> 0, outcome |-> "normal"]
            /\ UNCHANGED <<ub>>
       ELSE \/ /\ pc' = "aborted"
               /\ call' = [op |-> "earliest", arg |-> 0, outcome |-> "running"]
               /\ UNCHANGED <<earliest, ub>>
            \/ /\ earliest' \in AnyTime
               /\ pc' = "done"
               /\ call' = [op |-> "earliest", arg |-> 0, outcome |-> "normal"]
               /\ UNCHANGED <<ub>>
  /\ UNCHANGED <<heap_, timers_, mem, alloc, fired, cancelled, t, next, log, ret, pre,
                 order>>

\* void dispatch_timers(time) is entered
DispatchTimers(time) ==
  /\ Enter(<<"dispatch", time>>)
  /\ pc' = "dispatch"
  /\ call' = [op |-> "dispatch", arg |-> time, outcome |-> "running"]
  /\ UNCHANGED <<heap_, timers_, mem, alloc, fired, cancelled, t, next, log, ret,
                 earliest, pre, ub, order>>

\* DispatchTest with !comp(time, heap_[0]->time_) in place of the comparison
DispatchTestNotAfter(time) ==
  heap_.size > 0 /\ ~Comp(time, mem[heap_.data[0]].time_)

\* the condition of the while loop of dispatch_timers
DispatchTest(time) == heap_.size > 0 /\ Comp(mem[heap_.data[0]].time_, time)

\* one turn of the while loop up to the call of t->do_operation()
DispatchLoop ==
  /\ pc = "dispatch"
  /\ IF DispatchTest(call.arg)
       THEN LET rt == heap_.data[0]
                Q == RemoveTimer(Cur, rt)
            IN \/ /\ mem[rt].vptr
                  /\ Len(log) < MaxLog
                  /\ Store(Q)
                  /\ t' = rt
                  /\ fired' = [fired EXCEPT ![rt] = @ + 1]
                  /\ log' = Append(log, [k |-> "fire", t |-> rt, time |-> mem[rt].due])
                  /\ order' = Terminate(rt)
                  /\ pc' = "fire"
                  /\ UNCHANGED <<call>>
               \/ \* a checked access, or the virtual call on a deleted
                  \* timer whose first bytes were written over, ends the program
                  /\ (Q.oob \/ ~mem[rt].vptr)
                  /\ pc' = "aborted"
                  /\ ub' = TRUE
                  /\ UNCHANGED <<heap_, timers_, mem, t, fired, log, call, order>>
       ELSE /\ pc' = "done"
            /\ call' = [call EXCEPT !.outcome = "normal"]
            /\ UNCHANGED <<heap_, timers_, mem, t, fired, log, ub, order>>
  /\ UNCHANGED <<alloc, cancelled, next, ret, earliest, pre>>
  /\ UNCHANGED <<after, script>>

\* delete t: the address goes back to the free store.  The object is left
\* as it was, or the destructor or the free store writes over its first
\* bytes: the pointer to the virtual functions and, behind it, time_.  A
\* delete of a timer that was deleted before may go unnoticed.
Delete(a) ==
  /\ alloc' = alloc \ {a}
  /\ IF ub
       THEN \/ mem' = mem
            \/ \E g \in AnyTime :
                 mem' = [mem EXCEPT ![a].vptr = FALSE, ![a].time_ = g]
       ELSE mem' = [mem EXCEPT ![a] = Blank]
  /\ fired' = IF ub THEN fired ELSE [fired EXCEPT ![a] = 0]
  /\ cancelled' = IF ub THEN cancelled ELSE [cancelled EXCEPT ![a] = 0]

\* delete t on a timer that was deleted before is detected by the free
\* store, which ends the program
DeleteAgain(a) ==
  /\ a \notin alloc
  /\ UNCHANGED <<alloc, mem, fired, cancelled>>

\* delete t is skipped: the timer stays allocated and nothing points to it.
\* Its fields are never read again and are not part of the state.
Leak(a) == mem' = IF ub THEN mem ELSE [mem EXCEPT ![a] = Blank]

\* do_operation() returns; delete t
FireReturn ==
  /\ pc = "fire"
  /\ \/ Delete(t) /\ pc' = "dispatch"
     \/ DeleteAgain(t) /\ pc' = "aborted"
  /\ UNCHANGED <<heap_, timers_, t, next, call, log, ret, earliest, pre, ub, order>>
  /\ UNCHANGED <<after, script>>

\* do_operation() throws: the exception leaves dispatch_timers
FireThrow ==
  /\ pc = "fire"
  /\ Leak(t)
  /\ pc' = "done"
  /\ call' = [call EXCEPT !.outcome = "threw"]
  /\ UNCHANGED <<heap_, timers_, alloc, fired, cancelled, t, next, log, ret, earliest,
                 pre, ub, order>>
  /\ UNCHANGED <<after, script>>

\* void cancel_timer(timer_token) up to the first test of the while loop
CancelTimer(timer_token) ==
  /\ Enter(<<"cancel", timer_token>>)
  /\ pre' = [same |-> {a \in Pending : mem[a].token_ = timer_token},
             all |-> Pending,
             snap |-> IF \A a \in Pending : mem[a].token_ # timer_token
                        THEN <<heap_, timers_, mem, alloc, fired, cancelled>>
                        ELSE <<>>,
             order |-> order[timer_token]]
  /\ IF timer_token \in DOMAIN timers_
       THEN /\ t' = timers_[timer_token]
            /\ pc' = "cancel"
            /\ call' = [op |-> "cancel", arg |-> timer_token, outcome |-> "running"]
       ELSE /\ pc' = "done"
            /\ call' = [op |-> "cancel", arg |-> timer_token, outcome |-> "normal"]
            /\ UNCHANGED <<t>>
  /\ UNCHANGED <<heap_, timers_, mem, alloc, fired, cancelled, next, log, ret, earliest,
                 ub, order>>

\* one turn of the while loop up to the call of t->do_cancel()
CancelLoop ==
  /\ pc = "cancel"
  /\ IF t # Null
       THEN LET Q == RemoveTimer(Cur, t)
            IN \/ /\ mem[t].vptr
                  /\ Len(log) < MaxLog
                  /\ Store(Q)
                  /\ next' = mem[t].next_
                  /\ cancelled' = [cancelled EXCEPT ![t] = @ + 1]
                  /\ log' = Append(log, [k |-> "cancel", t |-> t, time |-> mem[t].due])
                  /\ order' = Terminate(t)
                  /\ pc' = "cancelcb"
                  /\ UNCHANGED <<call>>
               \/ \* a checked access, or the virtual call on a deleted
                  \* timer whose first bytes were written over, ends the program
                  /\ (Q.oob \/ ~mem[t].vptr)
                  /\ pc' = "aborted"
                  /\ ub' = TRUE
                  /\ UNCHANGED <<heap_, timers_, mem, next, cancelled, log, call, order>>
       ELSE /\ pc' = "done"
            /\ call' = [call EXCEPT !.outcome = "normal"]
            /\ UNCHANGED <<heap_, timers_, mem, next, cancelled, log, ub, order>>
  /\ UNCHANGED <<alloc, fired, t, ret, earliest, pre>>
  /\ UNCHANGED <<after, script>>

\* do_cancel() returns; delete t; t = next
CancelReturn ==
  /\ pc = "cancelcb"
  /\ \/ Delete(t) /\ t' = next /\ pc' = "cancel"
     \/ DeleteAgain(t) /\ UNCHANGED <<t>> /\ pc' = "aborted"
  /\ UNCHANGED <<heap_, timers_, next, call, log, ret, earliest, pre, ub, order>>
  /\ UNCHANGED <<after, script>>

\* do_cancel() throws: the exception leaves cancel_timer
CancelThrow ==
  /\ pc = "cancelcb"
  /\ Leak(t)
  /\ pc' = "done"
  /\ call' = [call EXCEPT !.outcome = "threw"]
  /\ UNCHANGED <<heap_, timers_, alloc, fired, cancelled, t, next, log, ret, earliest,
                 pre, ub, order>>
  /\ UNCHANGED <<after, script>>

\* control is back in the reactor; the locals and results of the call are gone
Return ==
  /\ pc = "done"
  /\ pc' = "idle"
  /\ t' = Null
  /\ next' = Null
  /\ call' = NoCall
  /\ log' = <<>>
  /\ ret' = NoRet
  /\ earliest' = 0
  /\ pre' = NoPre
  /\ UNCHANGED <<heap_, timers_, mem, alloc, fired, cancelled, ub, order>>
  /\ UNCHANGED <<after, script>>

Next ==
  \/ \E time \in Times, token \in Tokens, a \in Addr : EnqueueTimer(time, token, a)
  \/ GetEarliestTime
  \/ \E time \in 1..(MaxTime + 1) : DispatchTimers(time)
  \/ DispatchLoop
  \/ FireReturn
  \/ FireThrow
  \/ \E token \in Tokens : CancelTimer(token)
  \/ CancelLoop
  \/ CancelReturn
  \/ CancelThrow
  \/ Return

Spec == Init /\ [][Next]_vars

(* The reactor first makes the calls of Prefix, each <<"enqueue", time,     *)
(* token, address>> or <<"cancel", token>>, and any calls after them.  The *)
(* seventh call accesses heap_ out of bounds and the two calls after it    *)
(* use freed addresses again, so that the queue is followed further        *)
(* beyond the access than under Spec.                                      *)
Prefix ==
  << <<"enqueue", 1, 1, 1>>, <<"enqueue", 1, 2, 2>>, <<"enqueue", 1, 1, 3>>,
     <<"enqueue", 1, 1, 4>>, <<"cancel", 2>>, <<"enqueue", 2, 2, 2>>,
     <<"cancel", 1>>, <<"enqueue", 1, 1, 1>>, <<"enqueue", 1, 1, 4>> >>

InitAfter ==
  /\ pc = "idle"
  /\ heap_ = [data |-> [i \in Slots |-> Null], size |-> 0]
  /\ timers_ = [k \in {} |-> Null]
  /\ mem = [a \in Addr |-> Blank]
  /\ alloc = {}
  /\ fired = [a \in Addr |-> 0]
  /\ cancelled = [a \in Addr |-> 0]
  /\ t = Null
  /\ next = Null
  /\ call = NoCall
  /\ log = <<>>
  /\ ret = NoRet
  /\ earliest = 0
  /\ pre = NoPre
  /\ ub = FALSE
  /\ order = [k \in Tokens |-> <<>>]
  /\ after = MaxAfterScript
  /\ script = Prefix

SpecAfter == InitAfter /\ [][Next]_vars

----------------------------------------------------------------------------
(* Vocabulary of the properties.                                           *)

\* the comparator orders deadline d strictly before deadline e
Before(d, e) == d < e

HeapSlotsOf(a) == {i \in Slots : i < heap_.size /\ heap_.data[i] = a}
InHeap(a) == HeapSlotsOf(a) # {}

\* the timers reached from a through next_, a included (n bounds the walk)
RECURSIVE Reach(_, _)
Reach(a, n) ==
  IF a = Null \/ n = 0 THEN {} ELSE {a} \cup Reach(mem[a].next_, n - 1)

ChainOf(k) == IF k \in DOMAIN timers_ THEN Reach(timers_[k], MaxTimers) ELSE {}
InChain(a) == \E k \in DOMAIN timers_ : a \in ChainOf(k)

Terminated(a) == fired[a] + cancelled[a] >= 1

\* the timers visited from a through next_, in order (n bounds the walk)
RECURSIVE Walk(_, _)
Walk(a, n) ==
  IF a = Null \/ n = 0 THEN <<>> ELSE <<a>> \o Walk(mem[a].next_, n - 1)

\* the chain of an indexed token, followed from its head
ChainSeq(k) == Walk(timers_[k], MaxTimers + 1)

LogOf(a, kind) == {i \in 1..Len(log) : log[i].t = a /\ log[i].k = kind}

----------------------------------------------------------------------------
\* C1: one dispatch_timers call fires in non-decreasing deadline order, and
\* whenever it invokes do_operation on a timer no timer that is still
\* pending has a deadline ordered strictly before that timer's deadline.
C1_DispatchOrder ==
  call.op = "dispatch" =>
    /\ \A i, j \in 1..Len(log) : i < j => ~Before(log[j].time, log[i].time)
    /\ pc = "fire" =>
         \A a \in Pending : ~Before(mem[a].time_, log[Len(log)].time)

\* C2: when dispatch_timers(now) returns normally no pending timer has a
\* deadline ordered strictly before now.
C2_DispatchAllDue ==
  (pc = "done" /\ call.op = "dispatch" /\ call.outcome = "normal") =>
    \A a \in Pending : ~Before(mem[a].time_, call.arg)

\* C3: on a non-empty queue get_earliest_time yields a deadline that no
\* pending timer's deadline is ordered strictly before.
C3_EarliestIsSoonest ==
  (pc = "done" /\ call.op = "earliest") =>
    \A a \in Pending : ~Before(mem[a].time_, earliest)

\* C4: enqueue_timer returns true if and only if no other pending timer has
\* a deadline ordered strictly before the deadline of the new timer.
C4_EnqueueTrueIffMinimum ==
  (pc = "done" /\ call.op = "enqueue") =>
    (ret.val <=> \A a \in Pending \ {ret.t} :
                   ~Before(mem[a].time_, mem[ret.t].time_))

\* C5: no timer gets more than one terminal callback, and a timer that got
\* its terminal callback is in no heap slot and in no token chain.
C5_ExactlyOnce ==
  \A a \in Addr :
    /\ fired[a] + cancelled[a] <= 1
    /\ Terminated(a) => (~InHeap(a) /\ ~InChain(a))

\* C6: dispatch_timers(now) invokes do_operation only on timers whose
\* deadline is ordered strictly before now, and never invokes do_cancel.
C6_DispatchOnlyDue ==
  call.op = "dispatch" =>
    \A i \in 1..Len(log) : log[i].k = "fire" /\ Before(log[i].time, call.arg)

\* a dispatch returned having fired a timer and left one whose deadline is now
C6_Witness ==
  /\ pc = "done" /\ call.op = "dispatch" /\ call.outcome = "normal"
  /\ Len(log) >= 1
  /\ \E a \in Pending : mem[a].time_ = call.arg

\* C7: during cancel_timer(token) no timer that was pending under the token
\* when the call began gets do_cancel more than once, and when the call
\* returns normally every such timer got do_cancel exactly once, no pending
\* timer carries the token, the token is not in the index, and if every
\* pending timer carried the token the queue is empty (empty() holds).
C7_CancelAll ==
  /\ call.op = "cancel" =>
       \A a \in pre.same : Cardinality(LogOf(a, "cancel")) <= 1
  /\ (pc = "done" /\ call.op = "cancel" /\ call.outcome = "normal") =>
       /\ \A a \in pre.same : Cardinality(LogOf(a, "cancel")) = 1
       /\ \A a \in Pending : mem[a].token_ # call.arg
       /\ call.arg \notin DOMAIN timers_
       /\ pre.all = pre.same => heap_.size = 0

\* C8: a step of cancel_timer(token) leaves every timer pending under
\* another token pending, in the heap, with its deadline, token and chain
\* membership, and invokes no callback on it.
C8_CancelFrame ==
  [][ (pc \in {"idle", "cancel", "cancelcb"} /\ call'.op = "cancel") =>
        \A a \in Pending :
          (mem[a].token_ # call'.arg) =>
             /\ a \in Pending'
             /\ mem'[a].time_ = mem[a].time_
             /\ mem'[a].token_ = mem[a].token_
             /\ InHeap(a) => InHeap(a)'
             /\ (a \in ChainOf(mem[a].token_)) => (a \in ChainOf(mem[a].token_))'
             /\ fired'[a] = 0 /\ cancelled'[a] = 0 ]_vars

\* C9: cancel_timer with a token that no pending timer carries invokes no
\* callback and leaves the heap array, every cached slot, the timers and
\* the token index as they were.
C9_CancelAbsentNoOp ==
  (call.op = "cancel" /\ pre.same = {}) =>
    /\ log = <<>>
    /\ <<heap_, timers_, mem, alloc, fired, cancelled>> = pre.snap
    /\ pc = "done"

\* C10: between calls every pending timer is in exactly one heap slot, its
\* heap_index_ is the index of that slot, and no slot holds a timer that is
\* not pending.
C10_SlotCache ==
  pc \in {"idle", "done"} =>
    /\ \A a \in Pending : HeapSlotsOf(a) = {mem[a].heap_index_}
    /\ \A i \in Slots : i < heap_.size => heap_.data[i] \in Pending

\* the slot whose children, as down_heap examines them, include slot i
TreeParent(i) == (i - 1) \div 2

\* C11: between calls, for every slot but the root, the deadline in the slot
\* is not ordered strictly before the deadline in the slot's parent slot
\* (the slot p with i = 2p+1 or i = 2p+2).
C11_HeapProperty ==
  pc \in {"idle", "done"} =>
    \A i \in Slots :
      (0 < i /\ i < heap_.size) =>
        ~Before(mem[heap_.data[i]].time_, mem[heap_.data[TreeParent(i)]].time_)

\* C12: between calls the tokens in the index are exactly the tokens of the
\* pending timers, no indexed token has a null head, and the chain followed
\* from the head of a token visits every pending timer of that token once
\* and nothing else.
C12_IndexComplete ==
  pc \in {"idle", "done"} =>
    /\ DOMAIN timers_ = {mem[a].token_ : a \in Pending}
    /\ \A k \in DOMAIN timers_ :
         /\ timers_[k] # Null
         /\ {ChainSeq(k)[i] : i \in 1..Len(ChainSeq(k))} =
              {a \in Pending : mem[a].token_ = k}
         /\ \A i, j \in 1..Len(ChainSeq(k)) :
              ChainSeq(k)[i] = ChainSeq(k)[j] => i = j

\* every pending timer is in the one slot its heap_index_ names and every
\* slot holds a pending timer
SlotCacheHolds ==
  /\ \A a \in Pending : HeapSlotsOf(a) = {mem[a].heap_index_}
  /\ \A i \in Slots : i < heap_.size => heap_.data[i] \in Pending

\* the index holds the tokens of the pending timers and each chain visits
\* the pending timers of its token once
IndexHolds ==
  /\ DOMAIN timers_ = {mem[a].token_ : a \in Pending}
  /\ \A k \in DOMAIN timers_ :
       /\ {ChainSeq(k)[i] : i \in 1..Len(ChainSeq(k))} =
            {a \in Pending : mem[a].token_ = k}
       /\ Len(ChainSeq(k)) = Cardinality({a \in Pending : mem[a].token_ = k})

\* C13: while do_operation or do_cancel runs on a timer, that timer is in no
\* heap slot and in no token chain, and the slot cache and the token index
\* are consistent for the timers that are still pending.
C13_RemovedBeforeCallback ==
  pc \in {"fire", "cancelcb"} =>
    /\ ~InHeap(t)
    /\ ~InChain(t)
    /\ SlotCacheHolds
    /\ IndexHolds

\* C14: when an exception of do_operation or do_cancel has left
\* dispatch_timers or cancel_timer, the timer whose callback threw is not
\* pending and is not allocated any more.
C14_ThrowDestroys ==
  (pc = "done" /\ call.outcome = "threw") =>
    (t \notin Pending /\ t \notin alloc)

\* C15: get_earliest_time called on an empty queue ends in an error: it
\* does not return a deadline.
C15_EmptyFailsLoudly ==
  (call.op = "earliest" /\ heap_.size = 0) => pc = "aborted"

Rev(s) == [i \in 1..Len(s) |-> s[Len(s) + 1 - i]]

\* C16: the chain of every indexed token holds its pending timers from the
\* most recently enqueued to the oldest, the timer just enqueued is the head
\* of its token's chain, and cancel_timer invokes do_cancel on the timers of
\* the token in the reverse of their enqueue order.
C16_LifoChain ==
  /\ \A k \in DOMAIN timers_ : ChainSeq(k) = Rev(order[k])
  /\ (pc = "done" /\ call.op = "enqueue") =>
       \E k \in DOMAIN timers_ : timers_[k] = ret.t /\ mem[ret.t].token_ = k
  /\ call.op = "cancel" =>
       /\ Len(log) <= Len(pre.order)
       /\ \A i \in 1..Len(log) :
            log[i].k = "cancel" /\ log[i].t = Rev(pre.order)[i]
  /\ (pc = "done" /\ call.op = "cancel" /\ call.outcome = "normal") =>
       Len(log) = Len(pre.order)

\* the heap property of the queue value Q over the tree of down_heap
HeapOrdered(Q) ==
  \A i \in 1..(Q.size - 1) : ~Comp(TimeAt(Q, i), TimeAt(Q, TreeParent(i)))

\* the next step of the call in progress is a remove_timer call
RemovalDue ==
  \/ pc = "dispatch" /\ DispatchTest(call.arg)
  \/ pc = "cancel" /\ t # Null

\* the timer that call removes
RemovalTarget == IF pc = "dispatch" THEN heap_.data[0] ELSE t

\* C17: when remove_timer is about to remove a timer from a heap of more
\* than one element, (a) if a timer is displaced from the last slot into the
\* vacated slot, remove_timer sifts up exactly when the displaced timer's
\* deadline is ordered before the deadline in its new parent slot, and
\* (b) if the heap property holds before the removal, the removal stays
\* inside the array and the heap property holds after it.
C17_RemoveDirection ==
  (RemovalDue /\ ~ub /\ heap_.size > 1) =>
    LET rt == RemovalTarget
        heap_index == mem[rt].heap_index_
        Q2 == [SwapHeap(Cur, heap_index, heap_.size - 1) EXCEPT !.size = @ - 1]
        R == RemoveFromHeap(Cur, rt)
    IN /\ heap_index < heap_.size - 1 =>
            (SiftUpTest(Q2, rt, heap_index) <=>
               /\ heap_index > 0
               /\ Comp(TimeAt(Q2, heap_index), TimeAt(Q2, TreeParent(heap_index))))
       /\ HeapOrdered(Cur) => (~R.oob /\ HeapOrdered(R))

\* along down_heap(index) on Q, every child chosen at a slot with two
\* children has a deadline that is not ordered after the other child's
RECURSIVE ChoosesByDeadline(_, _)
ChoosesByDeadline(Q, index) ==
  LET child == index * 2 + 1
      min_child == MinChild(Q, child)
      other == IF min_child = child THEN child + 1 ELSE child
  IN IF child < Q.size
       THEN /\ child + 1 < Q.size =>
                 ~Comp(TimeAt(Q, other), TimeAt(Q, min_child))
            /\ \/ Comp(TimeAt(Q, index), TimeAt(Q, min_child))
               \/ ChoosesByDeadline(SwapHeap(Q, index, min_child), min_child)
       ELSE TRUE

\* C18: when remove_timer is about to sift the displaced timer down, every
\* child that down_heap picks at a slot with two children has a deadline
\* that is not ordered after the deadline of the other child.
C18_MinChildByDeadline ==
  (RemovalDue /\ ~ub /\ heap_.size > 1) =>
    LET rt == RemovalTarget
        heap_index == mem[rt].heap_index_
        Q2 == [SwapHeap(Cur, heap_index, heap_.size - 1) EXCEPT !.size = @ - 1]
    IN ~SiftUpTest(Q2, rt, heap_index) => ChoosesByDeadline(Q2, heap_index)

\* C19: when dispatch_timers or cancel_timer is about to call remove_timer,
\* every heap_ index that remove_timer, swap_heap, up_heap and down_heap
\* evaluate during that call is below the size heap_ has at that moment.
C19_RemoveInBounds ==
  (RemovalDue /\ ~ub) => ~RemoveTimer(Cur, RemovalTarget).oob

\* C20: whenever up_heap has run for an enqueue_timer call or remove_timer
\* is about to run, every slot i > 0 of the heap is one of the two children
\* that down_heap examines for the slot that up_heap and the direction test
\* of remove_timer take as the parent of i.
C20_SameTree ==
  ((pc = "done" /\ call.op = "enqueue") \/ RemovalDue) =>
    \A i \in Slots :
      (0 < i /\ i < heap_.size) =>
        i \in {Parent(i) * 2 + 1, Parent(i) * 2 + 2}

====
